---- MODULE Spec2Model ----
(***************************************************************************)
(* GeoMatch: two Blender add-ons that move the vertices of a source mesh   *)
(* onto a target mesh, ring by ring.                                       *)
(*   - the rigid variant, src/GeoMatchExperimental.py ("Match Crawl"):     *)
(*     SetSourceSeeds, SetTargetSeeds, Crawl, Reset over MatchProps;       *)
(*   - the simpler variant, src/__init__.py ("Geo Match"): AddSource,      *)
(*     AddTarget, CrawlTopology, MatchAll over GeoMatchProperties.         *)
(*                                                                         *)
(* Geometry.  Meshes are planar (z = 0) with integer local coordinates, so *)
(* a Vector is a pair <<x, y>>.  matrix_world of an object is a            *)
(* translation.  A unit vector d/|d| is kept as its integer direction d,   *)
(* and a rotation as an integer matrix over the square root of an integer, *)
(* so the frames of rigid_from_3 and the distance comparisons of the       *)
(* KDTree are computed exactly.                                            *)
(***************************************************************************)
EXTENDS Integers, Sequences, FiniteSets, TLC

\* Number of vertices of the largest mesh of a scene.
NV == 5
\* Number of seeding Crawls (INIT branch) followed on one scene; the source
\* mesh keeps the positions every earlier session wrote.
MaxSeedings == 1
\* Number of CrawlTopology / MatchAll runs a scene is followed through.
MaxMoves == 1

None == "None"
Objs == {"A", "B"}

(***************************************************************************)
(* Vectors                                                                 *)
(***************************************************************************)
Zero2 == <<0, 0>>
VAdd(a, b) == <<a[1] + b[1], a[2] + b[2]>>
VSub(a, b) == <<a[1] - b[1], a[2] - b[2]>>
Dot(a, b) == a[1] * b[1] + a[2] * b[2]
\* z component of the 3D cross product of two vectors of the plane z = 0
CrossZ(a, b) == a[1] * b[2] - a[2] * b[1]
\* e_z x d
Perp(d) == <<-d[2], d[1]>>
Sign(k) == IF k > 0 THEN 1 ELSE IF k < 0 THEN -1 ELSE 0
VScale(k, a) == <<k * a[1], k * a[2]>>
\* 2x2 matrix (a pair of rows) times vector
MatVec(M, v) == <<Dot(M[1], v), Dot(M[2], v)>>
\* a b^T
Outer(a, b) == <<VScale(a[1], b), VScale(a[2], b)>>
MatAdd(M, N) == <<VAdd(M[1], N[1]), VAdd(M[2], N[2])>>

(***************************************************************************)
(* Meshes and scenes.  A mesh is [n: vertex count, edges: set of {i, j}].  *)
(***************************************************************************)
PathMesh(n) == [n |-> n, edges |-> {{i, i + 1} : i \in 0..(n - 2)}]
\* triangle 0-1-3 with the other vertices in a chain 3-2-4-5-... hanging off
\* it: connected
TriTail(n) ==
    [n |-> n,
     edges |-> {{0, 1}, {1, 3}, {0, 3}, {3, 2}} \cup (IF n > 4 THEN {{2, 4}} ELSE {})
               \cup {{i, i + 1} : i \in 4..(n - 2)}]
\* triangle 0-1-3 as a connected component of its own
TriIsland(n) ==
    [n |-> n,
     edges |-> {{0, 1}, {1, 3}, {0, 3}} \cup (IF n > 4 THEN {{2, 4}} ELSE {})
               \cup {{i, i + 1} : i \in 4..(n - 2)}]

\* The same mesh numbered otherwise: vertices 1 and 3 trade their indices.
\* Phi is a graph isomorphism from g onto Relabelled(g), and back.
Phi(v) == IF v = 1 THEN 3 ELSE IF v = 3 THEN 1 ELSE v
Relabelled(g) == [n |-> g.n, edges |-> {{Phi(i), Phi(j)} : <<i, j>> \in
                                          {p \in (0..(g.n - 1)) \X (0..(g.n - 1)) :
                                             {p[1], p[2]} \in g.edges}}]

Scenes ==
    { [o \in Objs |-> PathMesh(NV)],
      [o \in Objs |-> IF o = "A" THEN TriTail(NV) ELSE PathMesh(NV - 1)],
      [o \in Objs |-> IF o = "A" THEN TriIsland(NV) ELSE TriTail(NV)],
      [o \in Objs |-> IF o = "A" THEN TriTail(NV) ELSE Relabelled(TriTail(NV))] }

\* Rest positions: A on a grid three columns wide, B the same grid turned by
\* 90 degrees about Z.
RestCo(o, v) ==
    IF o = "A" THEN <<v % 3, v \div 3>> ELSE <<-(v \div 3), v % 3>>

\* obj.matrix_world (a translation) and its inverse
MatrixWorld(o) == IF o = "A" THEN <<1, 2>> ELSE <<5, 0>>
ToWorld(o, p) == VAdd(p, MatrixWorld(o))
ToLocal(o, w) == VSub(w, MatrixWorld(o))

VARIABLES
    mesh,           \* obj -> mesh (topology; never edited by the add-ons)
    co,             \* obj -> vertex -> local position (v.co)
    \* MatchProps (rigid variant)
    source_obj, target_obj, source_seeds, target_seeds,
    frontier, matched, initialized, RT,
    steps,          \* history: completed nearest-neighbour steps since seeding
    seedings,       \* history: seeding Crawls completed on this scene
    moves,          \* history: CrawlTopology / MatchAll runs on this scene
    \* GeoMatchProperties (simpler variant)
    source_object, target_object, source_start, target_start,
    visited_target, visited_source,
    picked,         \* history: the object and the pick order of the last
                    \* accepted AddSource and AddTarget
    last            \* history: the last operator run and what it returned

rigidProps == <<source_obj, target_obj, source_seeds, target_seeds,
                frontier, matched, initialized, RT>>
simpleProps == <<source_object, target_object, source_start, target_start,
                 visited_target, visited_source>>
hist == <<steps, seedings>>
vars == <<mesh, co, rigidProps, hist, simpleProps, moves, picked, last>>

VertsOf(o) == 0..(mesh[o].n - 1)

\* v.link_edges / e.other_vert(v)
Neighbors(g, i) == {j \in 0..(g.n - 1) : j # i /\ {i, j} \in g.edges}

RECURSIVE Reach(_, _)
Reach(g, S) ==
    LET T == S \cup UNION {Neighbors(g, i) : i \in S}
    IN IF T = S THEN S ELSE Reach(g, T)
Connected(g) == Reach(g, {0}) = 0..(g.n - 1)

(***************************************************************************)
(* Rigid variant: helpers                                                  *)
(***************************************************************************)
\* What ordered_selected_verts can return for the active object o: the
\* select history, duplicates removed, in pick order.
SeqSet(s) == {s[k] : k \in 1..Len(s)}
\* The picks followed: a unit right triangle, the same picked in another
\* order, three collinear vertices, a triple with a slanted first edge, and
\* selections of the wrong size.
Picks(o) ==
    LET n == mesh[o].n
    IN {t \in {<<0, 1, 3>>, <<1, 0, 3>>, <<0, 1, 2>>, <<n - 1, 2, 0>>} :
          SeqSet(t) \subseteq VertsOf(o) /\ Cardinality(SeqSet(t)) = 3}
         \cup {<<>>, <<0, 1>>}

\* frame(a, b, c) of rigid_from_3.  The columns of the frame matrix are
\*   x = dir/|dir|, y = sgn * Perp(dir)/|dir|, z = sgn * e_z
\* (normalized() of the zero vector is the zero vector).
frame(a, b, c) ==
    LET d == VSub(b, a)
    IN [dir |-> d, sgn |-> Sign(CrossZ(d, VSub(c, a))), org |-> a]

\* Matrix.inverted() raises ValueError on a matrix of determinant 0
Singular(F) == F.dir = Zero2 \/ F.sgn = 0

\* FloatVectorProperty defaults: R = 0, T = 0
RT0 == [num |-> <<Zero2, Zero2>>, zz |-> 0, den2 |-> 1, torg |-> Zero2, tnum |-> Zero2]

\* rigid_from_3(src, tgt): R = R2 @ R1.inverted(), T = T2 - R @ T1, with
\*   R (in the plane) = num / sqrt(den2),  R[z][z] = zz,
\*   T = torg - tnum / sqrt(den2);
\* raises ValueError when R1 has no inverse.  R2 is never inverted.
rigid_from_3(src, tgt) ==
    LET F1 == frame(src[1], src[2], src[3])
        F2 == frame(tgt[1], tgt[2], tgt[3])
        M == MatAdd(Outer(F2.dir, F1.dir),
                    Outer(VScale(F1.sgn * F2.sgn, Perp(F2.dir)), Perp(F1.dir)))
        q == Dot(F1.dir, F1.dir) * (IF F2.dir = Zero2 THEN 1 ELSE Dot(F2.dir, F2.dir))
    IN IF Singular(F1) THEN [raised |-> "ValueError", rt |-> RT0]
       ELSE [raised |-> None,
             rt |-> [num |-> M, zz |-> F1.sgn * F2.sgn, den2 |-> q,
                     torg |-> F2.org, tnum |-> MatVec(M, F1.org)]]

\* guess = R @ w + T, as base + off / sqrt(den2)
Guess(rt, w) ==
    [base |-> rt.torg, off |-> VSub(MatVec(rt.num, w), rt.tnum), den2 |-> rt.den2]

\* sign of A * sqrt(Q) + B, for Q >= 1
SurdSign(A, B, Q) ==
    IF A >= 0 /\ B >= 0 THEN (IF A = 0 /\ B = 0 THEN 0 ELSE 1)
    ELSE IF A <= 0 /\ B <= 0 THEN -1
    ELSE IF A > 0 THEN Sign(A * A * Q - B * B)
    ELSE Sign(B * B - A * A * Q)

\* sign of |g - p|^2 - |g - q|^2
CmpDist(g, p, q) ==
    LET u == VSub(g.base, p)
        w == VSub(g.base, q)
    IN SurdSign(Dot(u, u) - Dot(w, w), 2 * Dot(VSub(q, p), g.off), g.den2)

\* build_kdtree: the evaluated target mesh's world positions by index; the
\* result stands for None when size = 0.  ev is the evaluated vertex set.
build_kdtree(obj, ev) ==
    [size |-> Cardinality(ev), pts |-> [i \in ev |-> ToWorld(obj, co[obj][i])]]

\* kdtree.find(g): the indices of the stored points nearest to g (several on
\* a tie, which the KDTree resolves by its own layout)
KDFind(kd, g) ==
    {i \in DOMAIN kd.pts : \A j \in DOMAIN kd.pts : CmpDist(g, kd.pts[i], kd.pts[j]) <= 0}

\* lines 191-193: the one-ring of every matched vertex
InitFrontier(g, m) == UNION {Neighbors(g, i) : i \in m}

\* the neighbours of matched taken where those of frontier are meant
NextFrontier_OfMatched(g, m, f) ==
    {j \in UNION {Neighbors(g, i) : i \in m} : j \notin m /\ j \notin f}

\* every vertex not reached yet taken as the next frontier
NextFrontier_Unreached(g, m, f) ==
    {j \in 0..(g.n - 1) : j \notin m /\ j \notin f}

\* a step on an empty frontier starting over from the one-ring of matched
NextFrontier_Reseed(g, m, f) ==
    IF f = {} THEN UNION {Neighbors(g, i) : i \in m}
    ELSE {j \in UNION {Neighbors(g, i) : i \in f} : j \notin m /\ j \notin f}

\* lines 224-227
NextFrontier(g, m, f) ==
    {j \in UNION {Neighbors(g, i) : i \in f} : j \notin m /\ j \notin f}

Min(a, b) == IF a < b THEN a ELSE b

Ran(op, result, branch) == [op |-> op, result |-> result, branch |-> branch]

(***************************************************************************)
(* Rigid variant: operators                                                *)
(***************************************************************************)
\* MATCH_OT_SetSourceSeeds.execute, with MatchProps.reset (which leaves R
\* and T as they are)
SetSourceSeeds(obj, verts) ==
    IF Len(verts) # 3
    THEN /\ last' = Ran("SetSourceSeeds", "CANCELLED", "none")
         /\ UNCHANGED <<mesh, co, rigidProps, hist, simpleProps, moves, picked>>
    ELSE /\ source_obj' = obj
         /\ source_seeds' = verts
         /\ target_obj' = None
         /\ target_seeds' = <<>>
         /\ frontier' = {}
         /\ matched' = {}
         /\ initialized' = FALSE
         /\ steps' = 0
         /\ last' = Ran("SetSourceSeeds", "FINISHED", "none")
         /\ UNCHANGED <<mesh, co, RT, seedings, simpleProps, moves, picked>>

\* SetTargetSeeds that also clears the stored transform
SetTargetSeeds_ClearsRT(obj, verts) ==
    IF Len(verts) # 3
    THEN /\ last' = Ran("SetTargetSeeds", "CANCELLED", "none")
         /\ UNCHANGED <<mesh, co, rigidProps, hist, simpleProps, moves, picked>>
    ELSE /\ target_obj' = obj
         /\ target_seeds' = verts
         /\ RT' = RT0
         /\ last' = Ran("SetTargetSeeds", "FINISHED", "none")
         /\ UNCHANGED <<mesh, co, source_obj, source_seeds, frontier, matched,
                        initialized, hist, simpleProps, moves, picked>>

\* MATCH_OT_SetTargetSeeds.execute
SetTargetSeeds(obj, verts) ==
    IF Len(verts) # 3
    THEN /\ last' = Ran("SetTargetSeeds", "CANCELLED", "none")
         /\ UNCHANGED <<mesh, co, rigidProps, hist, simpleProps, moves, picked>>
    ELSE /\ target_obj' = obj
         /\ target_seeds' = verts
         /\ last' = Ran("SetTargetSeeds", "FINISHED", "none")
         /\ UNCHANGED <<mesh, co, source_obj, source_seeds, frontier, matched,
                        initialized, RT, hist, simpleProps, moves, picked>>

\* MATCH_OT_Reset.execute
Reset ==
    /\ source_obj' = None
    /\ target_obj' = None
    /\ source_seeds' = <<>>
    /\ target_seeds' = <<>>
    /\ frontier' = {}
    /\ matched' = {}
    /\ initialized' = FALSE
    /\ steps' = 0
    /\ last' = Ran("Reset", "FINISHED", "none")
    /\ UNCHANGED <<mesh, co, RT, seedings, simpleProps, moves, picked>>

\* the world positions of the seed vertices (lines 176-177)
SeedPts(obj, seeds) == [k \in 1..Len(seeds) |-> ToWorld(obj, co[obj][seeds[k]])]

\* a cancelled Crawl that has already emptied the stored frontier
CrawlCancelled_ClearsFrontier ==
    /\ last' = Ran("Crawl", "CANCELLED", "none")
    /\ frontier' = {}
    /\ UNCHANGED <<mesh, co, source_obj, target_obj, source_seeds, target_seeds,
                   matched, initialized, RT, hist, simpleProps, moves, picked>>

\* Crawl returning CANCELLED (lines 161-162 and 208-210): nothing is written
CrawlCancelled ==
    /\ last' = Ran("Crawl", "CANCELLED", "none")
    /\ UNCHANGED <<mesh, co, rigidProps, hist, simpleProps, moves, picked>>

\* the seeds written with the target seed's world position, the source's
\* inverse world matrix left out
SnapSeeds_World(c, src, tgt, sseeds, tseeds) ==
    LET pairs == 1..Min(Len(sseeds), Len(tseeds))
        m == {sseeds[k] : k \in pairs}
    IN [v \in DOMAIN c[src] |->
          IF v \in m
          THEN LET k == CHOOSE k \in pairs : sseeds[k] = v
               IN ToWorld(tgt, c[tgt][tseeds[k]])
          ELSE c[src][v]]

\* lines 185-189: each source seed takes the position of the target seed of
\* the same rank, read from the target's mesh data, in source-local space
SnapSeeds(c, src, tgt, sseeds, tseeds) ==
    LET pairs == 1..Min(Len(sseeds), Len(tseeds))
        m == {sseeds[k] : k \in pairs}
    IN [v \in DOMAIN c[src] |->
          IF v \in m
          THEN LET k == CHOOSE k \in pairs : sseeds[k] = v
               IN ToLocal(src, ToWorld(tgt, c[tgt][tseeds[k]]))
          ELSE c[src][v]]

\* Crawl, INIT branch (lines 175-201).  rigid_from_3 raising leaves the
\* operator before anything is written.
CrawlInit ==
    LET src == source_obj
        tgt == target_obj
        est == rigid_from_3(SeedPts(src, source_seeds), SeedPts(tgt, target_seeds))
        pairs == 1..Min(Len(source_seeds), Len(target_seeds))
        m == {source_seeds[k] : k \in pairs}
    IN IF est.raised # None
       THEN /\ last' = Ran("Crawl", "EXCEPTION", "INIT")
            /\ UNCHANGED <<mesh, co, rigidProps, hist, simpleProps, moves, picked>>
       ELSE /\ RT' = est.rt
            /\ co' = [co EXCEPT ![src] =
                        SnapSeeds(co, src, tgt, source_seeds, target_seeds)]
            /\ matched' = m
            /\ frontier' = InitFrontier(mesh[src], m)
            /\ initialized' = TRUE
            /\ steps' = 0
            /\ seedings' = seedings + 1
            /\ last' = Ran("Crawl", "FINISHED", "INIT")
            /\ UNCHANGED <<mesh, source_obj, target_obj, source_seeds,
                           target_seeds, simpleProps, moves, picked>>

\* One KDTree hit per frontier vertex: every way of resolving the ties
RECURSIVE HitChoices(_, _)
HitChoices(S, near) ==
    IF S = {} THEN {<<>>}
    ELSE LET i == CHOOSE x \in S : TRUE
         IN {(i :> t) @@ h : t \in near[i], h \in HitChoices(S \ {i}, near)}

\* a loop body that takes the vertex it handles out of next_frontier and
\* tests its neighbours against matched only
CrawlBody_PopsVertex(kd, i, st) ==
    LET src == source_obj
    IN {[co |-> [st.co EXCEPT ![i] = ToLocal(src, kd.pts[t])],
         next |-> (st.next \cup {j \in Neighbors(mesh[src], i) : j \notin matched})
                    \ {i}] :
          t \in KDFind(kd, Guess(RT, ToWorld(src, st.co[i])))}

\* One iteration of the loop of lines 216-227 for frontier vertex i, on the
\* loop state st = [co: the source positions, next: next_frontier]: every
\* state the iteration can leave, one per way of resolving a KDTree tie
CrawlBody(kd, i, st) ==
    LET src == source_obj
    IN {[co |-> [st.co EXCEPT ![i] = ToLocal(src, kd.pts[t])],
         next |-> st.next \cup {j \in Neighbors(mesh[src], i) :
                                  j \notin matched /\ j \notin frontier}] :
          t \in KDFind(kd, Guess(RT, ToWorld(src, st.co[i])))}

\* The loop of lines 216-227 run over the frontier in the given order
RECURSIVE CrawlLoop(_, _, _)
CrawlLoop(kd, order, st) ==
    IF order = <<>> THEN {st}
    ELSE UNION {CrawlLoop(kd, Tail(order), s2) : s2 \in CrawlBody(kd, Head(order), st)}

\* Crawl, CRAWL branch (lines 212-235) with the KDTree kd
CrawlStep(kd) ==
    LET src == source_obj
        near == [i \in frontier |->
                   KDFind(kd, Guess(RT, ToWorld(src, co[src][i])))]
    IN \E h \in HitChoices(frontier, near) :
         /\ co' = [co EXCEPT ![src] =
                     [v \in VertsOf(src) |->
                        IF v \in frontier THEN ToLocal(src, kd.pts[h[v]])
                        ELSE co[src][v]]]
         /\ matched' = matched \cup frontier
         /\ frontier' = NextFrontier(mesh[src], matched, frontier)
         /\ steps' = Min(steps + 1, NV + 1)
         /\ last' = Ran("Crawl", "FINISHED", "CRAWL")
         /\ UNCHANGED <<mesh, source_obj, target_obj, source_seeds,
                        target_seeds, initialized, RT, seedings, simpleProps, moves, picked>>

\* MATCH_OT_Crawl.execute; ev is the vertex set of the evaluated target mesh
Crawl(ev) ==
    IF source_obj = None \/ target_obj = None THEN CrawlCancelled
    ELSE IF ~initialized THEN seedings < MaxSeedings /\ CrawlInit
    ELSE IF build_kdtree(target_obj, ev).size = 0 THEN CrawlCancelled
    ELSE CrawlStep(build_kdtree(target_obj, ev))

\* The active object when the rigid variant's seed operators run: the scene
\* has one mesh to deform and one to deform it onto.
SourceObjs == {"A"}
TargetObjs == {"B"}

\* the evaluated target mesh: the mesh itself, or no vertex at all
EvalSets == IF target_obj = None THEN {{}} ELSE {VertsOf(target_obj), {}}

Init ==
    /\ mesh \in Scenes
    /\ co = [o \in Objs |-> [v \in 0..(mesh[o].n - 1) |-> RestCo(o, v)]]
    /\ source_obj = None
    /\ target_obj = None
    /\ source_seeds = <<>>
    /\ target_seeds = <<>>
    /\ frontier = {}
    /\ matched = {}
    /\ initialized = FALSE
    /\ RT = RT0
    /\ steps = 0
    /\ seedings = 0
    /\ moves = 0
    /\ source_object = None
    /\ target_object = None
    /\ source_start = <<>>
    /\ target_start = <<>>
    /\ visited_target = <<>>
    /\ visited_source = <<>>
    /\ picked = [sobj |-> None, spicks |-> <<>>, tobj |-> None, tpicks |-> <<>>]
    /\ last = Ran("none", "none", "none")

NextRigid ==
    \/ \E obj \in SourceObjs : \E verts \in Picks(obj) : SetSourceSeeds(obj, verts)
    \/ \E obj \in TargetObjs : \E verts \in Picks(obj) : SetTargetSeeds(obj, verts)
    \/ \E ev \in EvalSets : Crawl(ev)
    \/ Reset

SpecRigid == Init /\ [][NextRigid]_vars

(***************************************************************************)
(* Simpler variant: helpers                                                *)
(***************************************************************************)
\* sorted(S), as a sequence
RECURSIVE Sorted(_)
Sorted(S) ==
    IF S = {} THEN <<>>
    ELSE LET m == CHOOSE x \in S : \A y \in S : x <= y
         IN <<m>> \o Sorted(S \ {m})

\* list(S) of a Python set of vertex indices: CPython keeps ints below its
\* smallest table size (8) in slot order, which is ascending order.
ListOfSet(S) == Sorted(S)

\* get_selected_verts: the selected vertices in mesh index order, whatever
\* the order sel they were picked in
get_selected_verts(sel) == Sorted(SeqSet(sel))

\* The selections followed when AddSource / AddTarget run on object o, each
\* as the sequence of vertices in the order the user picked them
Selections(o) ==
    {p \in {<<>>, <<0>>, <<0, 1>>, <<1, 0>>, <<0, mesh[o].n - 1>>} :
       SeqSet(p) \subseteq VertsOf(o)}

\* get_neighbors raises IndexError on an index the mesh does not have
CrawlRaises(o, visited_set) == \E i \in visited_set : i >= mesh[o].n

\* crawl_one_ring(obj, visited_set)
crawl_one_ring(o, visited_set) ==
    Sorted(UNION {Neighbors(mesh[o], i) : i \in visited_set} \ visited_set)

\* move_verts_to_match copying the target's local coordinates as they are
move_verts_to_match_NoWorld(c, src, tgt, src_indices, tgt_indices) ==
    LET pairs == {k \in 1..Min(Len(src_indices), Len(tgt_indices)) :
                    src_indices[k] < mesh[src].n /\ tgt_indices[k] < mesh[tgt].n}
        written == {src_indices[k] : k \in pairs}
        lastOf(v) == CHOOSE k \in pairs :
                        /\ src_indices[k] = v
                        /\ \A j \in pairs : src_indices[j] = v => j <= k
    IN [c EXCEPT ![src] =
          [v \in DOMAIN c[src] |->
             IF v \in written THEN c[tgt][tgt_indices[lastOf(v)]]
             ELSE c[src][v]]]

\* move_verts_to_match, as the positions it leaves in c: zip pairs the two
\* lists up to the shorter one; the target is read from its own copy.
move_verts_to_match(c, src, tgt, src_indices, tgt_indices) ==
    LET pairs == {k \in 1..Min(Len(src_indices), Len(tgt_indices)) :
                    src_indices[k] < mesh[src].n /\ tgt_indices[k] < mesh[tgt].n}
        written == {src_indices[k] : k \in pairs}
        lastOf(v) == CHOOSE k \in pairs :
                        /\ src_indices[k] = v
                        /\ \A j \in pairs : src_indices[j] = v => j <= k
    IN [c EXCEPT ![src] =
          [v \in DOMAIN c[src] |->
             IF v \in written
             THEN ToLocal(src, ToWorld(tgt, c[tgt][tgt_indices[lastOf(v)]]))
             ELSE c[src][v]]]

\* the loop body run once, an if where the while is
MatchLoop_Once(src, tgt, sv, tv, c) ==
    LET new_tgt == crawl_one_ring(tgt, tv)
        new_src == crawl_one_ring(src, sv)
    IN IF new_tgt = <<>> \/ new_src = <<>>
       THEN [sv |-> sv, tv |-> tv, co |-> c]
       ELSE [sv |-> sv \cup SeqSet(new_src), tv |-> tv \cup SeqSet(new_tgt),
             co |-> move_verts_to_match(c, src, tgt, new_src, new_tgt)]

\* The while loop of GEO_OT_MatchAll.execute (lines 192-201)
RECURSIVE MatchLoop(_, _, _, _, _)
MatchLoop(src, tgt, sv, tv, c) ==
    LET new_tgt == crawl_one_ring(tgt, tv)
        new_src == crawl_one_ring(src, sv)
    IN IF new_tgt = <<>> \/ new_src = <<>>
       THEN [sv |-> sv, tv |-> tv, co |-> c]
       ELSE MatchLoop(src, tgt, sv \cup SeqSet(new_src), tv \cup SeqSet(new_tgt),
                      move_verts_to_match(c, src, tgt, new_src, new_tgt))

(***************************************************************************)
(* Simpler variant: operators                                              *)
(***************************************************************************)
\* GEO_OT_AddSource.execute: source_object is assigned before the selection
\* is looked at
AddSource(obj, sel) ==
    /\ moves < MaxMoves
    /\ source_object' = obj
    /\ IF get_selected_verts(sel) = <<>>
       THEN /\ last' = Ran("AddSource", "CANCELLED", "none")
            /\ UNCHANGED <<source_start, visited_source, picked>>
       ELSE /\ source_start' = get_selected_verts(sel)
            /\ visited_source' = get_selected_verts(sel)
            /\ picked' = [picked EXCEPT !.sobj = obj, !.spicks = sel]
            /\ last' = Ran("AddSource", "FINISHED", "none")
    /\ UNCHANGED <<mesh, co, rigidProps, hist, moves, target_object,
                   target_start, visited_target>>

\* GEO_OT_AddTarget.execute
AddTarget(obj, sel) ==
    /\ moves < MaxMoves
    /\ target_object' = obj
    /\ IF get_selected_verts(sel) = <<>>
       THEN /\ last' = Ran("AddTarget", "CANCELLED", "none")
            /\ UNCHANGED <<target_start, visited_target, picked>>
       ELSE /\ target_start' = get_selected_verts(sel)
            /\ visited_target' = get_selected_verts(sel)
            /\ picked' = [picked EXCEPT !.tobj = obj, !.tpicks = sel]
            /\ last' = Ran("AddTarget", "FINISHED", "none")
    /\ UNCHANGED <<mesh, co, rigidProps, hist, moves, source_object,
                   source_start, visited_source>>

\* GEO_OT_CrawlTopology.execute
CrawlTopology ==
    LET src == source_object
        tgt == target_object
        c1 == IF source_start # <<>> /\ target_start # <<>>
              THEN move_verts_to_match(co, src, tgt, source_start, target_start)
              ELSE co
        src_visited == SeqSet(visited_source)
        tgt_visited == SeqSet(visited_target)
        new_tgt == crawl_one_ring(tgt, tgt_visited)
        new_src == crawl_one_ring(src, src_visited)
    IN IF src = None \/ tgt = None
       THEN /\ last' = Ran("CrawlTopology", "CANCELLED", "none")
            /\ UNCHANGED <<mesh, co, rigidProps, hist, simpleProps, moves, picked>>
       ELSE /\ moves < MaxMoves
            /\ moves' = moves + 1
            /\ UNCHANGED <<mesh, rigidProps, hist, source_object, target_object,
                           source_start, target_start, picked>>
            /\ IF CrawlRaises(tgt, tgt_visited) \/ CrawlRaises(src, src_visited)
               THEN /\ co' = c1
                    /\ last' = Ran("CrawlTopology", "EXCEPTION", "none")
                    /\ UNCHANGED <<visited_source, visited_target>>
               ELSE IF new_src = <<>> \/ new_tgt = <<>>
               THEN /\ co' = c1
                    /\ last' = Ran("CrawlTopology", "FINISHED", "none")
                    /\ UNCHANGED <<visited_source, visited_target>>
               ELSE /\ visited_source' = ListOfSet(src_visited \cup SeqSet(new_src))
                    /\ visited_target' = ListOfSet(tgt_visited \cup SeqSet(new_tgt))
                    /\ co' = move_verts_to_match(c1, src, tgt, new_src, new_tgt)
                    /\ last' = Ran("CrawlTopology", "FINISHED", "ring")

\* GEO_OT_MatchAll.execute
MatchAll ==
    LET src == source_object
        tgt == target_object
        src_visited == SeqSet(source_start)
        tgt_visited == SeqSet(target_start)
        c1 == move_verts_to_match(co, src, tgt, ListOfSet(src_visited),
                                  ListOfSet(tgt_visited))
        end == MatchLoop(src, tgt, src_visited, tgt_visited, c1)
    IN IF src = None \/ tgt = None \/ src_visited = {} \/ tgt_visited = {}
       THEN /\ last' = Ran("MatchAll", "CANCELLED", "none")
            /\ UNCHANGED <<mesh, co, rigidProps, hist, simpleProps, moves, picked>>
       ELSE /\ moves < MaxMoves
            /\ moves' = moves + 1
            /\ UNCHANGED <<mesh, rigidProps, hist, source_object, target_object,
                           source_start, target_start, picked>>
            /\ IF CrawlRaises(tgt, tgt_visited) \/ CrawlRaises(src, src_visited)
               THEN /\ co' = c1
                    /\ last' = Ran("MatchAll", "EXCEPTION", "none")
                    /\ UNCHANGED <<visited_source, visited_target>>
               ELSE /\ co' = end.co
                    /\ visited_source' = ListOfSet(end.sv)
                    /\ visited_target' = ListOfSet(end.tv)
                    /\ last' = Ran("MatchAll", "FINISHED", "none")

NextSimple ==
    \/ \E obj \in Objs : \E sel \in Selections(obj) : AddSource(obj, sel)
    \/ \E obj \in Objs : \E sel \in Selections(obj) : AddTarget(obj, sel)
    \/ CrawlTopology
    \/ MatchAll

SpecSimple == Init /\ [][NextSimple]_vars

(***************************************************************************)
(* Properties                                                              *)
(***************************************************************************)
Collinear(p) == CrossZ(VSub(p[2], p[1]), VSub(p[3], p[1])) = 0
RanOp(l, ops, result) == l.op \in ops /\ l.result = result

\* C1: in the rigid variant matched and frontier are disjoint in every
\* reachable state, the state right after the seeding Crawl included.
C1_MatchedFrontierDisjoint == matched \cap frontier = {}

\* C2: every completed Crawl step on an initialized session leaves |matched|
\* no smaller, and strictly greater when frontier was not empty.
C2_MatchedGrows ==
    [][(initialized /\ RanOp(last', {"Crawl"}, "FINISHED"))
         => /\ Cardinality(matched') >= Cardinality(matched)
            /\ frontier # {} => Cardinality(matched') > Cardinality(matched)]_vars

\* C3: on a connected source mesh, after |V| completed Crawl steps since
\* seeding the frontier is empty, and whenever the frontier of an initialized
\* session is empty, matched holds every vertex of the mesh.
C3_FixedPoint ==
    (initialized /\ Connected(mesh[source_obj]))
      => /\ steps >= mesh[source_obj].n => frontier = {}
         /\ frontier = {} => matched = VertsOf(source_obj)
\* a session that needed two steps to reach the empty frontier
C3_Witness ==
    /\ initialized
    /\ Connected(mesh[source_obj])
    /\ frontier = {}
    /\ matched = VertsOf(source_obj)
    /\ steps = 2
    /\ last.branch = "CRAWL"

MatchAllDone ==
    /\ RanOp(last, {"MatchAll"}, "FINISHED")
    /\ Connected(mesh[source_object])
    /\ Connected(mesh[target_object])
SourceRing == crawl_one_ring(source_object, SeqSet(visited_source))
TargetRing == crawl_one_ring(target_object, SeqSet(visited_target))

SameTopologySameSeeds ==
    /\ RanOp(last, {"MatchAll"}, "FINISHED")
    /\ mesh[source_object] = mesh[target_object]
    /\ Connected(mesh[source_object])
    /\ source_start = target_start

\* C5: for a connected source and a target with the same numbering and
\* edges, seeded with the same indices, MatchAll leaves every source vertex i
\* at target vertex i's position in source-local space, visited_source equal
\* to all source vertices and the frontier empty.
C5_EndToEnd ==
    SameTopologySameSeeds
      => /\ \A i \in VertsOf(source_object) :
              co[source_object][i]
                 = ToLocal(source_object, ToWorld(target_object, co[target_object][i]))
         /\ SeqSet(visited_source) = VertsOf(source_object)
         /\ SourceRing = <<>>
\* two different objects, seeded at one vertex, so rings had to be crawled
C5_Witness ==
    /\ SameTopologySameSeeds
    /\ source_object # target_object
    /\ Len(source_start) = 1

\* C6: a rejected seeding operation leaves the persisted session unchanged.
C6_RejectedUnchanged ==
    [][RanOp(last', {"AddSource", "AddTarget", "SetSourceSeeds", "SetTargetSeeds"},
             "CANCELLED")
         => UNCHANGED <<simpleProps, rigidProps>>]_vars

\* C7: CrawlTopology and MatchAll run with stored seed lists of different
\* lengths move no vertex and leave the visited sets as they were.
C7_LengthMismatchFails ==
    [][(last'.op \in {"CrawlTopology", "MatchAll"}
          /\ Len(source_start) # Len(target_start))
         => UNCHANGED <<co, visited_source, visited_target>>]_vars

\* C8: the seeding Crawl fails whenever the source or the target seed points
\* are collinear, leaving the session and the source positions unchanged.
C8_CollinearRejected ==
    [][(/\ last'.op = "Crawl"
        /\ source_obj # None /\ target_obj # None /\ ~initialized
        /\ \/ Collinear(SeedPts(source_obj, source_seeds))
           \/ Collinear(SeedPts(target_obj, target_seeds)))
         => /\ last'.result # "FINISHED"
            /\ UNCHANGED <<rigidProps, co>>]_vars

\* C9: a Crawl that does not complete changes neither the session nor any
\* vertex position, and the nearest-neighbour step only runs on a session
\* with initialized = true.
C9_FailedCrawlNoChange ==
    [][last'.op = "Crawl"
         => /\ last'.result # "FINISHED" => UNCHANGED <<rigidProps, co>>
            /\ last'.branch = "CRAWL" => initialized]_vars
\* a Crawl cancelled on an initialized session with work left (the target
\* evaluated to no vertex)
C9_Witness ==
    /\ RanOp(last, {"Crawl"}, "CANCELLED")
    /\ initialized
    /\ frontier # {}

\* C10: while the session stays initialized the stored transform keeps the
\* value written at seeding.
C10_TransformFixed == [][(initialized /\ initialized') => RT' = RT]_vars
\* an initialized session with a transform estimated from seeds, after a
\* later nearest-neighbour step
C10_Witness == initialized /\ RT # RT0 /\ steps >= 1

\* C11: right after the seeding Crawl, for every k the k-th source seed vertex
\* holds exactly the k-th target seed vertex's world position mapped into
\* source-local space, whatever transform was estimated.
C11_SeedExactness ==
    (RanOp(last, {"Crawl"}, "FINISHED") /\ last.branch = "INIT")
      => \A k \in 1..Len(source_seeds) :
            co[source_obj][source_seeds[k]]
              = ToLocal(source_obj,
                        ToWorld(target_obj, co[target_obj][target_seeds[k]]))
\* a seeding Crawl that completed on collinear target seeds, where the
\* estimated rotation is degenerate
C11_Witness ==
    /\ RanOp(last, {"Crawl"}, "FINISHED")
    /\ last.branch = "INIT"
    /\ Collinear(SeedPts(target_obj, target_seeds))
    /\ \E k \in 1..3 : co[source_obj][source_seeds[k]] # RestCo(source_obj, source_seeds[k])

\* the source and target seeds now stored are those of the recorded picks
SeedsArePicks ==
    /\ picked.sobj = source_object
    /\ picked.tobj = target_object
    /\ source_object # target_object
    /\ Len(picked.spicks) = Len(picked.tpicks)

\* C12: the k-th vertex the user picked on the source is moved onto the k-th
\* vertex picked on the target, for every pick order (simpler variant: after
\* a completed CrawlTopology or MatchAll).
C12_PickOrderPaired ==
    (RanOp(last, {"CrawlTopology", "MatchAll"}, "FINISHED") /\ SeedsArePicks)
      => \A k \in 1..Len(picked.spicks) :
            co[source_object][picked.spicks[k]]
              = ToLocal(source_object,
                        ToWorld(target_object, co[target_object][picked.tpicks[k]]))

\* a completed crawl between a mesh and its renumbering, seeded at vertices
\* that Phi maps onto each other
IsomorphicSeeded ==
    /\ RanOp(last, {"CrawlTopology", "MatchAll"}, "FINISHED")
    /\ source_object # target_object
    /\ mesh[target_object] = Relabelled(mesh[source_object])
    /\ mesh[target_object] # mesh[source_object]
    /\ Len(source_start) = Len(target_start)
    /\ \A k \in 1..Len(source_start) : target_start[k] = Phi(source_start[k])

\* C13: when the target is the source under a graph isomorphism Phi and the
\* seeds are paired by Phi, every source vertex v that CrawlTopology or
\* MatchAll has moved sits at the position of target vertex Phi(v).
C13_TopologyNotIndices ==
    IsomorphicSeeded
      => \A v \in SeqSet(visited_source) :
            co[source_object][v]
              = ToLocal(source_object,
                        ToWorld(target_object, co[target_object][Phi(v)]))

\* the session MatchProps holds before any operator has run
EmptySession == <<None, None, <<>>, <<>>, {}, {}, FALSE, RT0>>

\* C14: Reset from any reachable state of the rigid variant yields the same
\* empty session: no source or target mesh, empty seed lists, empty matched
\* and frontier, initialized = false and the transform discarded.
C14_ResetEmptySession ==
    RanOp(last, {"Reset"}, "FINISHED") => rigidProps = EmptySession

\* C15: in every reachable state of the rigid variant each frontier vertex is
\* joined by an edge to at least one matched vertex (right after seeding: to
\* a seed).
C15_FrontierAdjacent ==
    \A j \in frontier : \E i \in matched : j \in Neighbors(mesh[source_obj], i)
\* a frontier computed by a nearest-neighbour step, holding a vertex that is
\* not next to any seed
C15_Witness ==
    /\ initialized
    /\ last.branch = "CRAWL"
    /\ \E j \in frontier :
          \A k \in 1..Len(source_seeds) : j \notin Neighbors(mesh[source_obj], source_seeds[k])

\* C16: once the rigid session is initialized, the source mesh, the target
\* mesh, the seed lists, matched, frontier and the transform are changed only
\* by a Crawl step or a reset; SetTargetSeeds in particular leaves an
\* initialized session as it is.
C16_InitializedFrame ==
    [][(initialized /\ last'.op \notin {"Crawl", "Reset", "SetSourceSeeds"})
         => UNCHANGED rigidProps]_vars

\* C17: no Crawl step rewrites the position of a vertex that was in matched
\* before the step, so seeds keep their exact snap and every source vertex
\* position is written at most once per session.
C17_MatchedNotRewritten ==
    [][(initialized /\ last'.op = "Crawl")
         => \A v \in matched : co'[source_obj][v] = co[source_obj][v]]_vars

\* vertex v of src sits at the position of some vertex of tgt
OnTarget(src, tgt, v) ==
    \E t \in VertsOf(tgt) : co[src][v] = ToLocal(src, ToWorld(tgt, co[tgt][t]))

\* C18: after any completed crawl operation every vertex recorded as matched
\* (visited_source in the simpler variant) has had its position assigned from
\* the position of some target vertex, also when a source ring has more
\* vertices than the target ring.
C18_RecordedImpliesMoved ==
    (/\ RanOp(last, {"CrawlTopology", "MatchAll"}, "FINISHED")
     /\ source_object # target_object
     /\ source_start # <<>>
     /\ Len(source_start) = Len(target_start))
      => \A v \in SeqSet(visited_source) : OnTarget(source_object, target_object, v)

\* C19: a Crawl run on an initialized session whose frontier is empty leaves
\* matched, frontier, the transform and every source vertex position as they
\* were, so an empty frontier stays empty under further Crawl steps.
C19_Quiescent ==
    [][(initialized /\ frontier = {} /\ last'.op = "Crawl")
         => UNCHANGED <<matched, frontier, RT, co>>]_vars
\* more completed steps than the mesh has vertices: the last ones ran on an
\* empty frontier
C19_Witness ==
    /\ initialized
    /\ frontier = {}
    /\ matched # {}
    /\ RanOp(last, {"Crawl"}, "FINISHED")
    /\ last.branch = "CRAWL"
    /\ steps = NV + 1

\* every order in which the members of S can be visited
RECURSIVE Perms(_)
Perms(S) ==
    IF S = {} THEN {<<>>}
    ELSE UNION {{<<x>> \o p : p \in Perms(S \ {x})} : x \in S}

\* the loop state a nearest-neighbour step starts from
LoopStart == [co |-> co[source_obj], next |-> {}]
FullTree == build_kdtree(target_obj, VertsOf(target_obj))

\* C20: a completed nearest-neighbour step does not depend on the order in
\* which the frontier vertices are processed: for every permutation of the
\* frontier the loop can leave the same positions and the same next
\* frontier, the ones the step stored, and matched gains the same vertices.
C20_OrderIndependent ==
    [][(initialized /\ RanOp(last', {"Crawl"}, "FINISHED"))
         => \A o \in Perms(frontier) :
               /\ CrawlLoop(FullTree, o, LoopStart)
                     = CrawlLoop(FullTree, ListOfSet(frontier), LoopStart)
               /\ [co |-> co'[source_obj], next |-> frontier']
                     \in CrawlLoop(FullTree, o, LoopStart)
               /\ matched' = matched \cup SeqSet(o)]_vars
\* after the first step of a session whose frontier held the three seeds and
\* a vertex next to them, with a next frontier beyond it
C20_Witness ==
    /\ initialized
    /\ steps = 1
    /\ last.branch = "CRAWL"
    /\ Cardinality(matched) > 3
    /\ frontier # {}

====
